---- MODULE Spec2Model ----
\* Model of the wordle-benchmark frontend: the useLeaderboard hook, the
\* LeaderboardTable component it feeds, and the GamesPage view.
EXTENDS Integers, Sequences, FiniteSets, TLC

\* ---------------------------------------------------------------------------
\* Bounds
\* ---------------------------------------------------------------------------
MaxEntries == 4      \* longest leaderboard the server answers with
MaxRaceEntries == 1  \* the same, where requests overlap (Spec)
MaxRequests == 2     \* requests one mounted view issues in a behaviour
MaxDate == 2         \* dates the date picker offers, as day numbers 1..MaxDate
MaxGames == 1        \* longest game list the server answers with
AlphabetSize == 2    \* letters A.. the scored words are drawn from
MaxPlayed == 3       \* most games in an aggregated collection, and days they span
MaxTurnsGiven == 3   \* longest turns array handed to WordleGrid

\* ---------------------------------------------------------------------------
\* Values
\* ---------------------------------------------------------------------------
Null == <<>>                 \* JavaScript null for an object-valued state
Some(x) == <<x>>
NullNum == -1                \* JavaScript null in a number | null field
NoError == "null"            \* JavaScript null in a string | null state

SortColumns == {"model_name", "win_rate", "avg_guesses", "total_golf_score", "recent_results"}
SortDirections == {"asc", "desc"}

\* Strings are sequences of UTF-16 code units: "A" = 65, "B" = 66, "a" = 97, "b" = 98.
Name_a == <<97>>
Name_A == <<65>>
Name_B == <<66>>
Name_ab == <<97, 98>>
Name_b == <<98>>

GameResult(d, w) == [date |-> d, won |-> w]

\* The LeaderboardEntry records the server may put in a response.  The set has
\* ties and distinct values in every sortable column, an entry without wins
\* (avg_guesses null), one with avg_guesses 0 and one with an empty window.
Entries ==
  { [model_name |-> Name_a, total_games |-> 4, wins |-> 2, win_rate |-> 50,
     avg_guesses |-> 4, total_golf_score |-> 1,
     recent_results |-> <<GameResult(1, FALSE), GameResult(2, TRUE), GameResult(3, TRUE)>>],
    [model_name |-> Name_A, total_games |-> 2, wins |-> 1, win_rate |-> 50,
     avg_guesses |-> 3, total_golf_score |-> -1,
     recent_results |-> <<GameResult(1, TRUE), GameResult(2, FALSE)>>],
    [model_name |-> Name_B, total_games |-> 1, wins |-> 0, win_rate |-> 0,
     avg_guesses |-> NullNum, total_golf_score |-> 4,
     recent_results |-> <<GameResult(2, FALSE)>>],
    [model_name |-> Name_ab, total_games |-> 1, wins |-> 1, win_rate |-> 100,
     avg_guesses |-> 4, total_golf_score |-> -1,
     recent_results |-> <<GameResult(1, TRUE)>>],
    [model_name |-> Name_b, total_games |-> 1, wins |-> 0, win_rate |-> 0,
     avg_guesses |-> 0, total_golf_score |-> 4,
     recent_results |-> <<>>] }

Injective(s) == \A i, j \in 1..Len(s) : s[i] = s[j] => i = j

\* Leaderboards: one entry per model, in any order, at most MaxEntries long.
LeaderboardsUpTo(len) ==
  UNION { { s \in [1..n -> Entries] : Injective(s) } : n \in 0..len }

Leaderboards == LeaderboardsUpTo(MaxEntries)
RaceLeaderboards == LeaderboardsUpTo(MaxRaceEntries)

RECURSIVE SumGames(_)
SumGames(lb) == IF lb = <<>> THEN 0 ELSE lb[1].total_games + SumGames(Tail(lb))

LeaderboardResponse(lb) ==
  [leaderboard |-> lb,
   metadata |-> [total_games |-> SumGames(lb), total_models |-> Len(lb)]]

\* ---------------------------------------------------------------------------
\* useLeaderboard: the comparator and the sort of sortedData
\* ---------------------------------------------------------------------------
Max(a, b) == IF a >= b THEN a ELSE b

\* String.prototype.toLowerCase on the code units: A..Z map to a..z.
ToLowerCase(str) ==
  [i \in 1..Len(str) |-> IF str[i] >= 65 /\ str[i] <= 90 THEN str[i] + 32 ELSE str[i]]

\* JavaScript's < on two strings: code unit by code unit, a proper prefix first.
RECURSIVE StrLess(_, _)
StrLess(x, y) ==
  IF y = <<>> THEN FALSE
  ELSE IF x = <<>> THEN TRUE
  ELSE IF x[1] < y[1] THEN TRUE
  ELSE IF x[1] > y[1] THEN FALSE
  ELSE StrLess(Tail(x), Tail(y))

\* Mutant: an entry without average sorts after every average.
AvgGuessesKeyNullLast(e) == IF e.avg_guesses = NullNum THEN 99 ELSE e.avg_guesses

\* a.avg_guesses ?? 0
AvgGuessesKey(e) == IF e.avg_guesses = NullNum THEN 0 ELSE e.avg_guesses

\* recent_results.filter(game => game.won).length
WonCount(recent) == Cardinality({i \in 1..Len(recent) : recent[i].won})

\* Mutant: the divisor is the window length itself.
RecentKeyNoMax(e) ==
  [num |-> WonCount(e.recent_results), den |-> Len(e.recent_results)]

\* aWins / Math.max(a.recent_results.length, 1), kept as the quotient's
\* numerator and denominator.
RecentKey(e) ==
  [num |-> WonCount(e.recent_results), den |-> Max(Len(e.recent_results), 1)]

\* x < y on two such quotients.  A quotient 0/0 is NaN and compares false
\* with everything, which the cross product reproduces.
QuotLess(x, y) == x.num * y.den < y.num * x.den

\* Mutant: model names are compared as they are.
KeyLessCaseSensitive(column, a, b) ==
  CASE column = "model_name" -> StrLess(a.model_name, b.model_name)
    [] column = "win_rate" -> a.win_rate < b.win_rate
    [] column = "avg_guesses" -> AvgGuessesKey(a) < AvgGuessesKey(b)
    [] column = "total_golf_score" -> a.total_golf_score < b.total_golf_score
    [] column = "recent_results" -> QuotLess(RecentKey(a), RecentKey(b))
    [] OTHER -> FALSE

\* aVal < bVal for the keys the switch selects for column.
KeyLess(column, a, b) ==
  CASE column = "model_name" -> StrLess(ToLowerCase(a.model_name), ToLowerCase(b.model_name))
    [] column = "win_rate" -> a.win_rate < b.win_rate
    [] column = "avg_guesses" -> AvgGuessesKey(a) < AvgGuessesKey(b)
    [] column = "total_golf_score" -> a.total_golf_score < b.total_golf_score
    [] column = "recent_results" -> QuotLess(RecentKey(a), RecentKey(b))
    [] OTHER -> FALSE

\* Mutant: the comparator never answers 0.
CompareNoTie(a, b, cfg) ==
  IF KeyLess(cfg.column, a, b) THEN (IF cfg.direction = "asc" THEN -1 ELSE 1)
  ELSE (IF cfg.direction = "asc" THEN 1 ELSE -1)

\* Mutant: the comparator ignores the direction.
CompareAscOnly(a, b, cfg) ==
  IF KeyLess(cfg.column, a, b) THEN -1
  ELSE IF KeyLess(cfg.column, b, a) THEN 1
  ELSE 0

\* The comparator handed to sort: negative when a goes first.
Compare(a, b, cfg) ==
  IF KeyLess(cfg.column, a, b) THEN (IF cfg.direction = "asc" THEN -1 ELSE 1)
  ELSE IF KeyLess(cfg.column, b, a) THEN (IF cfg.direction = "asc" THEN 1 ELSE -1)
  ELSE 0

\* Mutant: an element also moves left past the elements it ties with.
RECURSIVE InsertSortedUnstable(_, _, _, _)
InsertSortedUnstable(s, x, arr, cfg) ==
  IF s = <<>> THEN <<x>>
  ELSE IF Compare(arr[s[Len(s)]], arr[x], cfg) >= 0
       THEN Append(InsertSortedUnstable(SubSeq(s, 1, Len(s) - 1), x, arr, cfg), s[Len(s)])
       ELSE Append(s, x)

\* Array.prototype.sort is stable: an element moves left only past elements
\* the comparator puts strictly after it.  The array holds references, here
\* the indices of the entries in arr.
RECURSIVE InsertSorted(_, _, _, _)
InsertSorted(s, x, arr, cfg) ==
  IF s = <<>> THEN <<x>>
  ELSE IF Compare(arr[s[Len(s)]], arr[x], cfg) > 0
       THEN Append(InsertSorted(SubSeq(s, 1, Len(s) - 1), x, arr, cfg), s[Len(s)])
       ELSE Append(s, x)

RECURSIVE ArraySort(_, _, _)
ArraySort(refs, arr, cfg) ==
  IF refs = <<>> THEN <<>>
  ELSE InsertSorted(ArraySort(SubSeq(refs, 1, Len(refs) - 1), arr, cfg), refs[Len(refs)], arr, cfg)

\* Mutant: sort runs on rawData.leaderboard itself, without the spread copy.
SortedDataInPlace(raw, cfg) ==
  IF raw = Null THEN [data |-> <<>>, raw |-> raw]
  ELSE LET lb == raw[1].leaderboard
           sorted == ArraySort([i \in 1..Len(lb) |-> i], lb, cfg)
           result == [k \in 1..Len(lb) |-> lb[sorted[k]]]
       IN [data |-> result, raw |-> Some([raw[1] EXCEPT !.leaderboard = result])]

\* The useMemo body.  raw is rawData; the result is the returned array and
\* the leaderboard array as the evaluation leaves it: sort works in place on
\* the spread copy, so the fetched array keeps its order.
SortedData(raw, cfg) ==
  IF raw = Null THEN [data |-> <<>>, raw |-> raw]
  ELSE LET lb == raw[1].leaderboard
           copy == [i \in 1..Len(lb) |-> i]
           sorted == ArraySort(copy, lb, cfg)
       IN [data |-> [k \in 1..Len(lb) |-> lb[sorted[k]]], raw |-> raw]

\* ---------------------------------------------------------------------------
\* LeaderboardTable
\* ---------------------------------------------------------------------------
Check == "check"     \* the win mark
Cross == "cross"     \* the loss mark

Reverse(s) == [i \in 1..Len(s) |-> s[Len(s) + 1 - i]]

\* Array.prototype.join(" ") as the sequence of pieces it concatenates.
RECURSIVE Join(_)
Join(marks) ==
  IF Len(marks) <= 1 THEN marks
  ELSE <<marks[1], " ">> \o Join(Tail(marks))

\* Mutant: the window is shown in the order it arrives in.
formatRecentResultsNoReverse(recentResults) ==
  [text |-> Join([i \in 1..Len(recentResults) |-> IF recentResults[i].won THEN Check ELSE Cross]),
   arg |-> recentResults]

\* formatRecentResults: text is the string returned, arg the argument array
\* after the call (slice() copies it before reverse() works in place).
formatRecentResults(recentResults) ==
  LET copy == recentResults
      reversed == Reverse(copy)
  IN [text |-> Join([i \in 1..Len(reversed) |-> IF reversed[i].won THEN Check ELSE Cross]),
      arg |-> recentResults]

\* Mutant: the ranks are counted from 1.
getTrophyOneBased(index) ==
  CASE index = 1 -> "gold" [] index = 2 -> "silver" [] index = 3 -> "bronze" [] OTHER -> ""

\* getTrophy: the medal of a row index, "" for none.
getTrophy(index) ==
  CASE index = 0 -> "gold" [] index = 1 -> "silver" [] index = 2 -> "bronze" [] OTHER -> ""

\* if (error): a string is truthy unless it is null or empty.
Truthy(str) == str # NoError /\ str # ""

\* Mutant: the loading view is tested for first.
LeaderboardTableLoadingFirst(d, isLoading, err) ==
  IF isLoading THEN [kind |-> "loading", rows |-> <<>>]
  ELSE IF Truthy(err) THEN [kind |-> "error", rows |-> <<>>]
  ELSE [kind |-> "table",
        rows |-> [k \in 1..Len(d) |->
                    [trophy |-> getTrophy(k - 1),
                     model_name |-> d[k].model_name,
                     recent |-> formatRecentResults(d[k].recent_results).text]]]

\* What LeaderboardTable returns for its props.
LeaderboardTable(d, isLoading, err) ==
  IF Truthy(err) THEN [kind |-> "error", rows |-> <<>>]
  ELSE IF isLoading THEN [kind |-> "loading", rows |-> <<>>]
  ELSE [kind |-> "table",
        rows |-> [k \in 1..Len(d) |->
                    [trophy |-> getTrophy(k - 1),
                     model_name |-> d[k].model_name,
                     recent |-> formatRecentResults(d[k].recent_results).text]]]

\* The entries of the fetched array after a render of the table: the rows
\* share their entry objects with rawData.leaderboard.
RenderedRaw(raw, isLoading, err) ==
  IF raw = Null \/ err # NoError \/ isLoading THEN raw
  ELSE Some([raw[1] EXCEPT !.leaderboard =
               [i \in 1..Len(raw[1].leaderboard) |->
                  [raw[1].leaderboard[i] EXCEPT !.recent_results = formatRecentResults(@).arg]]])

\* ---------------------------------------------------------------------------
\* HomePage
\* ---------------------------------------------------------------------------
\* A number that is a quotient of two integers, and the number 0.
Quot(n, d) == [num |-> n, den |-> d]
Zero == Quot(0, 1)

RECURSIVE SumWinRate(_)
SumWinRate(d) == IF d = <<>> THEN 0 ELSE d[1].win_rate + SumWinRate(Tail(d))

\* data.filter(e => e.avg_guesses != null)
WithAverage(d) == SelectSeq(d, LAMBDA e : e.avg_guesses # NullNum)

RECURSIVE SumAvgGuesses(_)
SumAvgGuesses(d) ==
  IF d = <<>> THEN 0
  ELSE (IF d[1].avg_guesses = NullNum THEN 0 ELSE d[1].avg_guesses) + SumAvgGuesses(Tail(d))

calculateAvgWinRate(d) ==
  IF Len(d) = 0 THEN Zero ELSE Quot(SumWinRate(d), Len(d))

\* Mutant: the average runs over every entry, those without average included.
calculateAvgGuessesAllEntries(d) == Quot(SumAvgGuesses(d), Len(d))

calculateAvgGuesses(d) ==
  LET validEntries == WithAverage(d)
  IN IF Len(validEntries) = 0 THEN Zero
     ELSE Quot(SumAvgGuesses(validEntries), Len(validEntries))

\* metadata: rawData?.metadata ?? null
Metadata(raw) == IF raw = Null THEN Null ELSE Some(raw[1].metadata)

\* The two averages of the stat cards; while loading the cards show "..."
\* and neither function is called.
QuickStats(d, ld) ==
  IF ld THEN Null
  ELSE Some([avgWinRate |-> calculateAvgWinRate(d), avgGuesses |-> calculateAvgGuesses(d)])

\* ---------------------------------------------------------------------------
\* State
\* ---------------------------------------------------------------------------
VARIABLES
  page,          \* the route that is mounted: "home" or "games"
  mounted,       \* the mount effect of the page has run
  requests,      \* the requests the page issued, in issue order
  completed,     \* the ids of the settled requests, in completion order
  delivered,     \* the last successful response the network handed over
  calls,         \* how often refresh, a date change and a retry happened
  rawData, loading, error, sortConfig,      \* useLeaderboard's state
  data, table,                              \* what useLeaderboard returns and the table shows
  stats,                                    \* the averages HomePage shows in its stat cards
  escaped,       \* an exception left fetchLeaderboard or loadGames uncaught
  games, selectedDate, isLoading, gamesError,  \* GamesPage's state
  target, guess, result,                    \* the scorer's two words and what it answers
  played, recencyWindow, ranking,           \* the aggregator's two arguments and what it returns
  turns, maxTurns, animateIn, grid,         \* WordleGrid's props, its state and the rows it shows
  tile, finished, tileView,                 \* LetterTile's props, its state and what it shows
  method, response, outcome                 \* an ApiClient call, what fetch resolved with, how the call ends

vars == <<page, mounted, requests, completed, delivered, calls,
          rawData, loading, error, sortConfig, data, table, stats, escaped,
          games, selectedDate, isLoading, gamesError,
          target, guess, result, played, recencyWindow, ranking,
          turns, maxTurns, animateIn, grid, tile, finished, tileView,
          method, response, outcome>>

netVars == <<requests, completed, delivered>>
hookVars == <<rawData, loading, error, sortConfig, data, table, stats>>
gamesVars == <<games, selectedDate, isLoading, gamesError>>
scorerVars == <<target, guess, result>>
aggregatorVars == <<played, recencyWindow, ranking>>
engineVars == <<scorerVars, aggregatorVars>>
gridVars == <<turns, maxTurns, animateIn, grid>>
tileVars == <<tile, finished, tileView>>
apiVars == <<method, response, outcome>>
componentVars == <<gridVars, tileVars, apiVars>>

LeaderboardErrorMessage == "Unable to retrieve leaderboard data. Please try again."
\* err.message of a rejected getGamesByDate, or the fallback text
GamesErrorMessages == {"HTTP 500", "Failed to load games"}

Today == 1
Dates == 1..MaxDate

Game(d, n) == [id |-> n, date |-> d]
\* The game lists the server may answer a request for date d with.
GameLists(d) == { [i \in 1..n |-> Game(d, i)] : n \in 0..MaxGames }

Pending == { i \in 1..Len(requests) : requests[i].status = "pending" }

\* A request record: what started it and its date parameter (0 for the
\* leaderboard).
NewRequest(cause, date) ==
  [cause |-> cause, date |-> date, status |-> "pending"]

Issue(cause, date) ==
  /\ requests' = Append(requests, NewRequest(cause, date))
  /\ UNCHANGED <<completed, delivered>>

Settle(id, status) ==
  /\ requests' = [requests EXCEPT ![id].status = status]
  /\ completed' = Append(completed, id)

\* The scorer before it is called.
ScorerIdle == target = <<>> /\ guess = <<>> /\ result = Null

\* The aggregator before it is called.
AggregatorIdle == played = <<>> /\ recencyWindow = 0 /\ ranking = Null

EngineIdle == ScorerIdle /\ AggregatorIdle

\* WordleGrid and LetterTile before they are mounted, the ApiClient before a call.
GridIdle == turns = <<>> /\ maxTurns = 0 /\ animateIn = FALSE /\ grid = <<>>
TileIdle == tile = Null /\ finished = FALSE /\ tileView = Null
ApiIdle == method = "" /\ response = Null /\ outcome = Null
ComponentsIdle == GridIdle /\ TileIdle /\ ApiIdle

\* useState initial values of both components.
ViewInit ==
  /\ page \in {"home", "games"}
  /\ mounted = FALSE
  /\ requests = <<>>
  /\ completed = <<>>
  /\ delivered = [id |-> 0, resp |-> Null]
  /\ calls = [refresh |-> 0, dateChange |-> 0, retry |-> 0]
  /\ rawData = Null
  /\ loading = TRUE
  /\ error = NoError
  /\ sortConfig = [column |-> "win_rate", direction |-> "desc"]
  /\ data = <<>>
  /\ table = LeaderboardTable(<<>>, TRUE, NoError)
  /\ stats = QuickStats(<<>>, TRUE)
  /\ escaped = FALSE
  /\ games = <<>>
  /\ selectedDate = Today
  /\ isLoading = FALSE
  /\ gamesError = NoError

Init == ViewInit /\ EngineIdle /\ ComponentsIdle

\* ---------------------------------------------------------------------------
\* useLeaderboard
\* ---------------------------------------------------------------------------
\* The render that follows a state change of the hook: useMemo recomputes
\* sortedData and HomePage hands it to LeaderboardTable.
Render(raw, ld, err, cfg) ==
  LET sd == SortedData(raw, cfg)
  IN /\ data' = sd.data
     /\ table' = LeaderboardTable(sd.data, ld, err)
     /\ stats' = QuickStats(sd.data, ld)
     /\ rawData' = RenderedRaw(sd.raw, ld, err)

\* fetchLeaderboard up to its await: setLoading(true); setError(null).
FetchStart ==
  /\ loading' = TRUE
  /\ error' = NoError
  /\ UNCHANGED sortConfig
  /\ Render(rawData, TRUE, NoError, sortConfig)

\* Mutant: the response of a request that is not the newest is dropped.
FetchFulfilledLatestOnly(id, resp) ==
  /\ loading' = FALSE
  /\ UNCHANGED <<error, sortConfig>>
  /\ Render(IF id = Len(requests) THEN Some(resp) ELSE rawData, FALSE, error, sortConfig)

\* fetchLeaderboard after a fulfilled await: setRawData(data); finally setLoading(false).
FetchFulfilled(id, resp) ==
  /\ loading' = FALSE
  /\ UNCHANGED <<error, sortConfig>>
  /\ Render(Some(resp), FALSE, error, sortConfig)

\* Mutant: a failed request also drops the leaderboard fetched before.
FetchRejectedClears(id) ==
  /\ escaped' = escaped
  /\ error' = LeaderboardErrorMessage
  /\ loading' = FALSE
  /\ UNCHANGED sortConfig
  /\ Render(Null, FALSE, LeaderboardErrorMessage, sortConfig)

\* fetchLeaderboard after a rejected await: setError(...); finally setLoading(false).
FetchRejected(id) ==
  /\ escaped' = escaped        \* the catch block takes the rejection
  /\ error' = LeaderboardErrorMessage
  /\ loading' = FALSE
  /\ UNCHANGED sortConfig
  /\ Render(rawData, FALSE, LeaderboardErrorMessage, sortConfig)

\* useEffect(() => { void fetchLeaderboard(); }, [])
MountLeaderboard ==
  /\ page = "home" /\ ~mounted
  /\ mounted' = TRUE
  /\ FetchStart
  /\ Issue("mount", 0)
  /\ UNCHANGED <<engineVars, componentVars, escaped, page, calls, gamesVars>>

\* refresh()
Refresh ==
  /\ page = "home" /\ mounted
  /\ Len(requests) < MaxRequests
  /\ calls' = [calls EXCEPT !.refresh = @ + 1]
  /\ FetchStart
  /\ Issue("refresh", 0)
  /\ UNCHANGED <<engineVars, componentVars, escaped, page, mounted, gamesVars>>

\* Mutant: the direction flips whatever column was sorted by before.
SortByAlwaysToggles(column) ==
  /\ page = "home" /\ mounted
  /\ sortConfig' = [column |-> column,
                    direction |-> IF sortConfig.direction = "desc" THEN "asc" ELSE "desc"]
  /\ UNCHANGED <<loading, error>>
  /\ Render(rawData, loading, error, sortConfig')
  /\ UNCHANGED <<engineVars, componentVars, escaped, page, mounted, calls, netVars, gamesVars>>

\* Mutant: a new sort order is fetched from the server.
SortByRefetch(column) ==
  /\ page = "home" /\ mounted
  /\ sortConfig' = [column |-> column,
                    direction |-> IF sortConfig.column = column /\ sortConfig.direction = "desc"
                                  THEN "asc" ELSE "desc"]
  /\ loading' = TRUE
  /\ error' = NoError
  /\ Render(rawData, TRUE, NoError, sortConfig')
  /\ Issue("sort", 0)
  /\ UNCHANGED <<engineVars, componentVars, escaped, page, mounted, calls, gamesVars>>

\* sortBy(column)
SortBy(column) ==
  /\ page = "home" /\ mounted
  /\ sortConfig' = [column |-> column,
                    direction |-> IF sortConfig.column = column /\ sortConfig.direction = "desc"
                                  THEN "asc" ELSE "desc"]
  /\ UNCHANGED <<loading, error>>
  /\ Render(rawData, loading, error, sortConfig')
  /\ UNCHANGED <<engineVars, componentVars, escaped, page, mounted, calls, netVars, gamesVars>>

\* apiClient.getLeaderboard() resolves with the response resp.
LeaderboardResolve(id, resp) ==
  /\ page = "home" /\ id \in Pending
  /\ Settle(id, "ok")
  /\ delivered' = [id |-> id, resp |-> resp]
  /\ FetchFulfilled(id, resp)
  /\ UNCHANGED <<engineVars, componentVars, escaped, page, mounted, calls, gamesVars>>

\* apiClient.getLeaderboard() rejects.
LeaderboardReject(id) ==
  /\ page = "home" /\ id \in Pending
  /\ Settle(id, "fail")
  /\ UNCHANGED delivered
  /\ FetchRejected(id)
  /\ UNCHANGED <<engineVars, componentVars, page, mounted, calls, gamesVars>>

\* ---------------------------------------------------------------------------
\* GamesPage
\* ---------------------------------------------------------------------------
\* loadGames up to its await: setIsLoading(true); setError(null).
LoadStart ==
  /\ isLoading' = TRUE
  /\ gamesError' = NoError
  /\ UNCHANGED games

\* loadGames after a fulfilled await: setGames(gameData); finally setIsLoading(false).
LoadFulfilled(id, gameData) ==
  /\ games' = gameData
  /\ isLoading' = FALSE
  /\ UNCHANGED <<gamesError, selectedDate>>

\* Mutant: a failed load empties the list.
LoadRejectedClearsGames(id, message) ==
  /\ escaped' = escaped
  /\ gamesError' = message
  /\ isLoading' = FALSE
  /\ games' = <<>>
  /\ UNCHANGED selectedDate

\* Mutant: the failure path has no finally block.
LoadRejectedNoFinally(id, message) ==
  /\ escaped' = escaped
  /\ gamesError' = message
  /\ UNCHANGED isLoading
  /\ UNCHANGED <<games, selectedDate>>

\* loadGames after a rejected await: setError(message); finally setIsLoading(false).
LoadRejected(id, message) ==
  /\ escaped' = escaped        \* the catch block takes the rejection
  /\ gamesError' = message
  /\ isLoading' = FALSE
  /\ UNCHANGED <<games, selectedDate>>

\* useEffect(() => { void loadGames(selectedDate); }, [selectedDate]) at mount
MountGames ==
  /\ page = "games" /\ ~mounted
  /\ mounted' = TRUE
  /\ LoadStart
  /\ Issue("mount", selectedDate)
  /\ UNCHANGED <<engineVars, componentVars, escaped, page, calls, selectedDate, hookVars>>

\* Mutant: the handler calls loadGames itself and the effect calls it again.
HandleDateChangeTwice(newDate) ==
  /\ page = "games" /\ mounted
  /\ newDate # selectedDate
  /\ Len(requests) < MaxRequests
  /\ selectedDate' = newDate
  /\ calls' = [calls EXCEPT !.dateChange = @ + 1]
  /\ LoadStart
  /\ requests' = requests \o <<NewRequest("date", newDate), NewRequest("date", newDate)>>
  /\ UNCHANGED <<completed, delivered>>
  /\ UNCHANGED <<engineVars, componentVars, escaped, page, mounted, hookVars>>

\* handleDateChange: the date input reports a new value, and the effect on
\* selectedDate loads the games of that date.
HandleDateChange(newDate) ==
  /\ page = "games" /\ mounted
  /\ newDate # selectedDate
  /\ Len(requests) < MaxRequests
  /\ selectedDate' = newDate
  /\ calls' = [calls EXCEPT !.dateChange = @ + 1]
  /\ LoadStart
  /\ Issue("date", newDate)
  /\ UNCHANGED <<engineVars, componentVars, escaped, page, mounted, hookVars>>

\* The "Try again" button of the error box: loadGames(selectedDate).
Retry ==
  /\ page = "games" /\ mounted
  /\ gamesError # NoError
  /\ Len(requests) < MaxRequests
  /\ calls' = [calls EXCEPT !.retry = @ + 1]
  /\ LoadStart
  /\ Issue("retry", selectedDate)
  /\ UNCHANGED <<engineVars, componentVars, escaped, page, mounted, selectedDate, hookVars>>

\* apiClient.getGamesByDate(date, true) resolves with gameData.
GamesResolve(id, gameData) ==
  /\ page = "games" /\ id \in Pending
  /\ Settle(id, "ok")
  /\ delivered' = [id |-> id, resp |-> gameData]
  /\ LoadFulfilled(id, gameData)
  /\ UNCHANGED <<engineVars, componentVars, escaped, page, mounted, calls, hookVars>>

\* apiClient.getGamesByDate(date, true) rejects with an error of that message.
GamesReject(id, message) ==
  /\ page = "games" /\ id \in Pending
  /\ Settle(id, "fail")
  /\ UNCHANGED delivered
  /\ LoadRejected(id, message)
  /\ UNCHANGED <<engineVars, componentVars, page, mounted, calls, hookVars>>

Next ==
  \/ MountLeaderboard
  \/ Refresh
  \/ \E column \in SortColumns : SortBy(column)
  \/ \E id \in Pending, lb \in RaceLeaderboards : LeaderboardResolve(id, LeaderboardResponse(lb))
  \/ \E id \in Pending : LeaderboardReject(id)
  \/ MountGames
  \/ \E d \in Dates : HandleDateChange(d)
  \/ Retry
  \/ \E id \in Pending : \E gameData \in GameLists(requests[id].date) : GamesResolve(id, gameData)
  \/ \E id \in Pending, message \in GamesErrorMessages : GamesReject(id, message)

\* Both views, with overlapping requests.
Spec == Init /\ [][Next]_vars

\* The promise of request id settles, one way or the other.
Settles(id) ==
  \/ \E lb \in RaceLeaderboards : LeaderboardResolve(id, LeaderboardResponse(lb))
  \/ LeaderboardReject(id)
  \/ \E d \in Dates : \E gameData \in GameLists(d) : GamesResolve(id, gameData)
  \/ \E message \in GamesErrorMessages : GamesReject(id, message)

\* The mount effect runs after the first render, and every request that was
\* issued settles.
Fairness ==
  /\ WF_vars(MountLeaderboard \/ MountGames)
  /\ \A id \in 1..MaxRequests : WF_vars(Settles(id))

\* Both views with every way of starting and settling a request; the sort
\* order, which no fetch reads or writes, stays as it is.
LiveNext ==
  \/ MountLeaderboard
  \/ Refresh
  \/ MountGames
  \/ \E d \in Dates : HandleDateChange(d)
  \/ Retry
  \/ \E id \in Pending : Settles(id)

LiveSpec == Init /\ [][LiveNext]_vars /\ Fairness

\* The leaderboard view with its one request at mount, answered with any
\* leaderboard of up to MaxEntries entries, and any sequence of sorts.
SortInit == Init /\ page = "home"

SortNext ==
  \/ MountLeaderboard
  \/ \E column \in SortColumns : SortBy(column)
  \/ \E id \in Pending, lb \in Leaderboards : LeaderboardResolve(id, LeaderboardResponse(lb))
  \/ \E id \in Pending : LeaderboardReject(id)

SortSpec == SortInit /\ [][SortNext]_vars

\* LeaderboardTable on its own: any ranking, either loading flag, with and
\* without an error message, rendered once.
Unrendered == [kind |-> "unrendered", rows |-> <<>>]

TableInit ==
  /\ page = "home" /\ mounted = TRUE
  /\ requests = <<>> /\ completed = <<>>
  /\ delivered = [id |-> 0, resp |-> Null]
  /\ calls = [refresh |-> 0, dateChange |-> 0, retry |-> 0]
  /\ rawData = Null
  /\ sortConfig = [column |-> "win_rate", direction |-> "desc"]
  /\ data \in Leaderboards
  /\ loading \in BOOLEAN
  /\ error \in {NoError, LeaderboardErrorMessage}
  /\ table = Unrendered
  /\ stats = QuickStats(<<>>, TRUE)
  /\ escaped = FALSE
  /\ games = <<>> /\ selectedDate = Today /\ isLoading = FALSE /\ gamesError = NoError
  /\ EngineIdle /\ ComponentsIdle

\* <LeaderboardTable data={data} loading={loading} error={error} ... />
RenderTable ==
  /\ table = Unrendered
  /\ table' = LeaderboardTable(data, loading, error)
  /\ UNCHANGED <<rawData, loading, error, sortConfig, data, stats>>
  /\ UNCHANGED <<engineVars, componentVars, escaped, page, mounted, calls, netVars, gamesVars>>

TableNext == RenderTable

TableSpec == TableInit /\ [][TableNext]_vars

\* ---------------------------------------------------------------------------
\* Feedback scorer (specification section 4.1)
\* ---------------------------------------------------------------------------
WordLength == 5

\* Words are sequences of code units, as the model names are.
Alphabet == 65..(64 + AlphabetSize)
Word_SPEED == <<83, 80, 69, 69, 68>>
Word_ERASE == <<69, 82, 65, 83, 69>>
Word_speed == <<115, 112, 101, 101, 100>>

\* Inputs that are not five letters: too short, too long, empty, and five
\* characters one of which is a digit or a blank.
MalformedWords ==
  { <<>>, <<65, 66, 65, 66>>, <<65, 66, 65, 66, 65, 66>>,
    <<65, 66, 49, 65, 66>>, <<65, 32, 65, 66, 66>> }

ScoreInputs ==
  [1..WordLength -> Alphabet] \cup {Word_SPEED, Word_ERASE, Word_speed} \cup MalformedWords

IsAlphabetic(c) == (c >= 65 /\ c <= 90) \/ (c >= 97 /\ c <= 122)
IsWord(w) == Len(w) = WordLength /\ \A i \in 1..Len(w) : IsAlphabetic(w[i])

\* Both words are brought to one case before they are compared.
Normalize(w) ==
  [i \in 1..Len(w) |-> IF w[i] >= 97 /\ w[i] <= 122 THEN w[i] - 32 ELSE w[i]]

\* Pass 1: the positions where guess and target agree.
ExactMatches(t, g) == {i \in 1..WordLength : g[i] = t[i]}

\* Mutant: a letter of the target counts once, however often it occurs.
RemainingAsSet(t, g) ==
  [c \in 65..90 |-> IF \E i \in 1..WordLength : t[i] = c /\ i \notin ExactMatches(t, g)
                    THEN 1 ELSE 0]

\* Mutant: exact matches take nothing from the counts.
RemainingWholeTarget(t, g) ==
  [c \in 65..90 |-> Cardinality({i \in 1..WordLength : t[i] = c})]

\* The remaining-letter counts after pass 1: every letter of the target,
\* less the ones an exact match took.
RemainingAfterExact(t, g) ==
  [c \in 65..90 |-> Cardinality({i \in 1..WordLength : t[i] = c /\ i \notin ExactMatches(t, g)})]

\* Mutant: a present mark takes nothing from the counts.
RECURSIVE PassTwoNoDecrement(_, _, _, _)
PassTwoNoDecrement(t, g, i, remaining) ==
  IF i > WordLength THEN <<>>
  ELSE IF i \in ExactMatches(t, g)
       THEN <<"correct">> \o PassTwoNoDecrement(t, g, i + 1, remaining)
  ELSE IF remaining[g[i]] > 0
       THEN <<"present">> \o PassTwoNoDecrement(t, g, i + 1, remaining)
  ELSE <<"absent">> \o PassTwoNoDecrement(t, g, i + 1, remaining)

\* Pass 2 from position i on, left to right, with the counts that are left.
RECURSIVE PassTwo(_, _, _, _)
PassTwo(t, g, i, remaining) ==
  IF i > WordLength THEN <<>>
  ELSE IF i \in ExactMatches(t, g)
       THEN <<"correct">> \o PassTwo(t, g, i + 1, remaining)
  ELSE IF remaining[g[i]] > 0
       THEN <<"present">> \o PassTwo(t, g, i + 1, [remaining EXCEPT ![g[i]] = @ - 1])
  ELSE <<"absent">> \o PassTwo(t, g, i + 1, remaining)

LetterResult(position, letter, status) ==
  [position |-> position, letter |-> letter, status |-> status]

\* Mutant: only the guess is validated; a malformed target matches nothing.
scoreGuessValidated(t0, g0) ==
  IF ~IsWord(g0) THEN [error |-> "InvalidInput", results |-> Null]
  ELSE IF ~IsWord(t0)
       THEN [error |-> NoError,
             results |-> Some([i \in 1..WordLength |-> LetterResult(i - 1, Normalize(g0)[i], "absent")])]
  ELSE LET t == Normalize(t0)
           g == Normalize(g0)
           statuses == PassTwo(t, g, 1, RemainingAfterExact(t, g))
       IN [error |-> NoError,
           results |-> Some([i \in 1..WordLength |-> LetterResult(i - 1, g[i], statuses[i])])]

\* score(target, guess): InvalidInput and no results, or five LetterResults.
score(t0, g0) ==
  IF ~IsWord(t0) \/ ~IsWord(g0) THEN [error |-> "InvalidInput", results |-> Null]
  ELSE LET t == Normalize(t0)
           g == Normalize(g0)
           statuses == PassTwo(t, g, 1, RemainingAfterExact(t, g))
       IN [error |-> NoError,
           results |-> Some([i \in 1..WordLength |-> LetterResult(i - 1, g[i], statuses[i])])]

\* The scorer is called on its two words.
Score ==
  /\ result = Null
  /\ result' = Some(score(target, guess))
  /\ UNCHANGED <<target, guess>>
  /\ UNCHANGED <<aggregatorVars, componentVars, escaped, page, mounted, calls, netVars, hookVars, gamesVars>>

\* The scorer on every pair of inputs.
ScoreInit ==
  /\ ViewInit /\ page = "home"
  /\ target \in ScoreInputs /\ guess \in ScoreInputs /\ result = Null
  /\ AggregatorIdle /\ ComponentsIdle

ScoreNext == Score

ScoreSpec == ScoreInit /\ [][ScoreNext]_vars

\* ---------------------------------------------------------------------------
\* Leaderboard aggregator
\* ---------------------------------------------------------------------------
MaxGuesses == 6
ModelNames == {Name_a, Name_B}
PlayDates == 1..MaxPlayed

\* A completed Game, reduced to what the aggregator reads.
PlayedGame(m, d, w, n) == [model |-> m, date |-> d, won |-> w, guesses_count |-> n]

\* A model plays one game a day: it wins it, in fewer guesses on a later day,
\* or loses it after MaxGuesses guesses.
PlayedGames ==
  { PlayedGame(m, d, TRUE, Max(MaxGuesses - d, 1)) : m \in ModelNames, d \in PlayDates }
    \cup { PlayedGame(m, d, FALSE, MaxGuesses) : m \in ModelNames, d \in PlayDates }

OneGameADay(gs) ==
  \A i, j \in 1..Len(gs) :
    (gs[i].model = gs[j].model /\ gs[i].date = gs[j].date) => i = j

\* The collections aggregate is called with, in any order.
GameCollections ==
  UNION { { gs \in [1..n -> PlayedGames] : OneGameADay(gs) } : n \in 0..MaxPlayed }

RecencyWindows == 1..MaxPlayed

\* The distinct models of a collection, in order of first appearance.
RECURSIVE DistinctModels(_)
DistinctModels(gs) ==
  IF gs = <<>> THEN <<>>
  ELSE <<gs[1].model>>
         \o DistinctModels(SelectSeq(Tail(gs), LAMBDA g : g.model # gs[1].model))

GamesOf(m, gs) == SelectSeq(gs, LAMBDA g : g.model = m)

\* Mutant: every game counts as a win.
WonGamesAll(gs) == gs

WonGames(gs) == SelectSeq(gs, LAMBDA g : g.won)

RECURSIVE SumGuesses(_)
SumGuesses(gs) == IF gs = <<>> THEN 0 ELSE gs[1].guesses_count + SumGuesses(Tail(gs))

\* 100 * wins / total_games, and 0 without a game.
WinRate(wins, total) == IF total = 0 THEN Zero ELSE Quot(100 * wins, total)

\* The mean guess count of the won games, null without a win.
AvgGuesses(gs) ==
  IF WonGames(gs) = <<>> THEN NullNum
  ELSE Quot(SumGuesses(WonGames(gs)), Len(WonGames(gs)))

\* s with game g put behind the games that are not dated later.
RECURSIVE InsertByDate(_, _)
InsertByDate(s, g) ==
  IF s = <<>> THEN <<g>>
  ELSE IF g.date < s[1].date THEN <<g>> \o s
  ELSE <<s[1]>> \o InsertByDate(Tail(s), g)

RECURSIVE SortByDate(_)
SortByDate(gs) ==
  IF gs = <<>> THEN <<>>
  ELSE InsertByDate(SortByDate(SubSeq(gs, 1, Len(gs) - 1)), gs[Len(gs)])

\* Mutant: the window is cut from the oldest end.
RecentResultsOldest(gs, window) ==
  LET byDate == SortByDate(gs)
      n == IF window < Len(byDate) THEN window ELSE Len(byDate)
  IN [i \in 1..n |-> GameResult(byDate[i].date, byDate[i].won)]

\* The last `window` games by date, oldest first, reduced to {date, won}.
RecentResults(gs, window) ==
  LET byDate == SortByDate(gs)
      n == IF window < Len(byDate) THEN window ELSE Len(byDate)
      recent == SubSeq(byDate, Len(byDate) - n + 1, Len(byDate))
  IN [i \in 1..n |-> GameResult(recent[i].date, recent[i].won)]

\* The entry of model m.  total_golf_score is left out: its par and its loss
\* penalty are not fixed.
AggregateEntry(m, gs, window) ==
  LET mine == GamesOf(m, gs)
  IN [model_name |-> m,
      total_games |-> Len(mine),
      wins |-> Len(WonGames(mine)),
      win_rate |-> WinRate(Len(WonGames(mine)), Len(mine)),
      avg_guesses |-> AvgGuesses(mine),
      recent_results |-> RecentResults(mine, window)]

aggregate(gs, window) ==
  LET models == DistinctModels(gs)
  IN [i \in 1..Len(models) |-> AggregateEntry(models[i], gs, window)]

\* The aggregator is called on its collection.
Aggregate ==
  /\ ranking = Null
  /\ ranking' = Some(aggregate(played, recencyWindow))
  /\ UNCHANGED <<played, recencyWindow>>
  /\ UNCHANGED <<scorerVars, componentVars, escaped, page, mounted, calls, netVars, hookVars, gamesVars>>

\* The aggregator on every collection and window.
AggInit ==
  /\ ViewInit /\ page = "home"
  /\ ScorerIdle /\ ComponentsIdle
  /\ played \in GameCollections /\ recencyWindow \in RecencyWindows /\ ranking = Null

AggNext == Aggregate

AggSpec == AggInit /\ [][AggNext]_vars

\* ---------------------------------------------------------------------------
\* WordleGrid
\* ---------------------------------------------------------------------------
DefaultMaxTurns == 6
BlankCells == 5

\* The grids the page asks for, and the turn numbers a turns array may hold:
\* below, at and above the edges of both grids.
GridSizes == {2, DefaultMaxTurns}
TurnNumbers == {0, 1, 2, DefaultMaxTurns, DefaultMaxTurns + 1}
GridTarget == Word_SPEED
GridGuesses == {Word_SPEED, Word_ERASE}

\* A GameTurn of a game whose target is GridTarget.
GameTurn(n, g) ==
  [turn_number |-> n, guess |-> g, is_correct |-> (g = GridTarget),
   letter_results |-> score(GridTarget, g).results[1]]

GameTurns == { GameTurn(n, g) : n \in TurnNumbers, g \in GridGuesses }

\* The turns arrays, in any order and with repeated turn numbers.
TurnLists == UNION { [1..n -> GameTurns] : n \in 0..MaxTurnsGiven }

\* Mutant: the last turn of that number is taken.
RECURSIVE FindLast(_, _)
FindLast(ts, n) ==
  IF ts = <<>> THEN Null
  ELSE IF ts[Len(ts)].turn_number = n THEN Some(ts[Len(ts)])
  ELSE FindLast(SubSeq(ts, 1, Len(ts) - 1), n)

\* turns.find(t => t.turn_number === n): the first such turn, or undefined.
RECURSIVE Find(_, _)
Find(ts, n) ==
  IF ts = <<>> THEN Null
  ELSE IF ts[1].turn_number = n THEN Some(ts[1])
  ELSE Find(Tail(ts), n)

\* renderTurn: one LetterTile for each letter result of the turn.
renderTurn(turn, anim) ==
  [kind |-> "turn", key |-> turn.turn_number,
   cells |-> [j \in 1..Len(turn.letter_results) |->
                [letter |-> turn.letter_results[j].letter,
                 status |-> turn.letter_results[j].status,
                 position |-> turn.letter_results[j].position,
                 animateIn |-> anim]]]

\* renderEmptyTurn: five bordered boxes without a letter.
renderEmptyTurn(turnNumber) ==
  [kind |-> "empty", key |-> turnNumber,
   cells |-> [j \in 1..BlankCells |-> [letter |-> 0, status |-> "", position |-> j - 1,
                                       animateIn |-> FALSE]]]

\* The rows WordleGrid returns.
WordleGrid(ts, rows, anim) ==
  [index \in 1..rows |->
     LET turn == Find(ts, index)
     IN IF turn # Null THEN renderTurn(turn[1], anim) ELSE renderEmptyTurn(index)]

\* The first render.
RenderGrid ==
  /\ grid = <<>>
  /\ grid' = WordleGrid(turns, maxTurns, animateIn)
  /\ UNCHANGED <<turns, maxTurns, animateIn>>
  /\ UNCHANGED <<tileVars, apiVars, engineVars, escaped, page, mounted, calls, netVars, hookVars, gamesVars>>

\* useEffect(() => { if (turns.length > 0) setAnimateIn(true); }, [turns]),
\* and the render that follows the state change.
GridEffect ==
  /\ grid # <<>> /\ ~animateIn
  /\ Len(turns) > 0
  /\ animateIn' = TRUE
  /\ grid' = WordleGrid(turns, maxTurns, TRUE)
  /\ UNCHANGED <<turns, maxTurns>>
  /\ UNCHANGED <<tileVars, apiVars, engineVars, escaped, page, mounted, calls, netVars, hookVars, gamesVars>>

\* WordleGrid on every turns array and both grid sizes.
GridInit ==
  /\ ViewInit /\ page = "games"
  /\ EngineIdle /\ TileIdle /\ ApiIdle
  /\ turns \in TurnLists /\ maxTurns \in GridSizes
  /\ animateIn = FALSE /\ grid = <<>>

GridNext == RenderGrid \/ GridEffect

GridSpec == GridInit /\ [][GridNext]_vars

\* ---------------------------------------------------------------------------
\* ApiClient
\* ---------------------------------------------------------------------------
Methods == {"getGamesByDate", "healthCheck", "getLeaderboard"}
HttpStatuses == {200, 404, 422, 500, 502}

\* A value of a JSON object's detail field: a string, or undefined when the
\* object has no such field.
Detail(s) == [type |-> "string", text |-> s]
NoDetail == [type |-> "undefined", text |-> ""]

\* A response body: text that is not JSON, or JSON text with the value it
\* parses to.
NotJson == [json |-> FALSE, value |-> NoDetail]
Json(v) == [json |-> TRUE, value |-> v]
Bodies ==
  {NotJson, Json(NoDetail), Json(Detail("")), Json(Detail("Game not found")),
   Json(Detail("Internal error"))}

\* What fetch resolves with.
Responses == { [status |-> st, body |-> b] : st \in HttpStatuses, b \in Bodies }

\* response.ok
Ok(resp) == resp.status \in 200..299

\* How an async call ends.
Returned(v) == [kind |-> "returned", name |-> "", message |-> "", value |-> v]
Thrown(n, m) == [kind |-> "thrown", name |-> n, message |-> m, value |-> NoDetail]

\* response.json(): the parsed value, or a SyntaxError for text that is not JSON.
ResponseJson(resp) ==
  IF resp.body.json THEN Returned(resp.body.value)
  ELSE Thrown("SyntaxError", "Unexpected token")

\* error.detail || `HTTP ${response.status}`
DetailOr(v, st) ==
  IF v.type = "string" /\ v.text # "" THEN v.text ELSE "HTTP " \o ToString(st)

\* fetchJson once fetch has resolved with resp.
fetchJson(resp) ==
  IF ~Ok(resp)
  THEN LET errorData == ResponseJson(resp)
       IN IF errorData.kind = "thrown" THEN errorData
          ELSE Thrown("Error", DetailOr(errorData.value, resp.status))
  ELSE ResponseJson(resp)

getGamesByDate(resp) == fetchJson(resp)
healthCheck(resp) == fetchJson(resp)
getLeaderboard(resp) == fetchJson(resp)

\* A call of one of the three methods runs to its end.
Call ==
  /\ outcome = Null
  /\ outcome' = Some(CASE method = "getGamesByDate" -> getGamesByDate(response[1])
                       [] method = "healthCheck" -> healthCheck(response[1])
                       [] OTHER -> getLeaderboard(response[1]))
  /\ UNCHANGED <<method, response>>
  /\ UNCHANGED <<gridVars, tileVars, engineVars, escaped, page, mounted, calls, netVars, hookVars, gamesVars>>

\* Every method on every response.
ApiInit ==
  /\ ViewInit /\ page = "home"
  /\ EngineIdle /\ GridIdle /\ TileIdle
  /\ method \in Methods
  /\ response \in { Some(r) : r \in Responses }
  /\ outcome = Null

ApiNext == Call

ApiSpec == ApiInit /\ [][ApiNext]_vars

\* ---------------------------------------------------------------------------
\* LetterTile
\* ---------------------------------------------------------------------------
ANIMATION_DELAY_MS == 100
LetterStatuses == {"correct", "present", "absent"}

\* The props of a tile: a LetterResult and the animateIn flag of the grid.
TileProps ==
  { [letter |-> l, status |-> st, position |-> pos, animateIn |-> anim] :
      l \in Alphabet, st \in LetterStatuses, pos \in 0..(WordLength - 1), anim \in BOOLEAN }

\* getAnimationStyles: animation "none" locks the tile, animationDelay is the
\* delay in ms, NullNum where the style object has no such key.
getAnimationStyles(props, fin) ==
  IF fin THEN [animation |-> "none", animationDelay |-> NullNum]
  ELSE IF props.animateIn /\ ~fin
       THEN [animation |-> "", animationDelay |-> props.position * ANIMATION_DELAY_MS]
  ELSE [animation |-> "", animationDelay |-> NullNum]

\* Mutant: the class follows animateIn alone.
LetterTileKeepsClass(props, fin) ==
  [letter |-> props.letter, status |-> props.status,
   animateClass |-> props.animateIn,
   style |-> getAnimationStyles(props, fin)]

\* What LetterTile returns: animateClass says whether the inner div carries
\* the class tile-animate-in.
LetterTile(props, fin) ==
  [letter |-> props.letter, status |-> props.status,
   animateClass |-> (props.animateIn /\ ~fin),
   style |-> getAnimationStyles(props, fin)]

\* The first render.
RenderTile ==
  /\ tileView = Null
  /\ tileView' = Some(LetterTile(tile[1], finished))
  /\ UNCHANGED <<tile, finished>>
  /\ UNCHANGED <<gridVars, apiVars, engineVars, escaped, page, mounted, calls, netVars, hookVars, gamesVars>>

\* onAnimationEnd: handleAnimationEnd calls setFinished(true).
TileAnimationEnd ==
  /\ tileView # Null
  /\ finished' = TRUE
  /\ tileView' = Some(LetterTile(tile[1], TRUE))
  /\ UNCHANGED tile
  /\ UNCHANGED <<gridVars, apiVars, engineVars, escaped, page, mounted, calls, netVars, hookVars, gamesVars>>

\* The parent renders the tile again with another animateIn.
TileAnimateIn(anim) ==
  /\ tileView # Null
  /\ anim # tile[1].animateIn
  /\ tile' = Some([tile[1] EXCEPT !.animateIn = anim])
  /\ tileView' = Some(LetterTile(tile'[1], finished))
  /\ UNCHANGED finished
  /\ UNCHANGED <<gridVars, apiVars, engineVars, escaped, page, mounted, calls, netVars, hookVars, gamesVars>>

\* One tile with any props.
TileInit ==
  /\ ViewInit /\ page = "games"
  /\ EngineIdle /\ GridIdle /\ ApiIdle
  /\ tile \in { Some(props) : props \in TileProps }
  /\ finished = FALSE
  /\ tileView = Null

TileNext ==
  \/ RenderTile
  \/ TileAnimationEnd
  \/ \E anim \in BOOLEAN : TileAnimateIn(anim)

TileSpec == TileInit /\ [][TileNext]_vars

\* ---------------------------------------------------------------------------
\* Properties
\* ---------------------------------------------------------------------------
Loaded == delivered.id # 0
\* The leaderboard array as the network delivered it.
Fetched == delivered.resp.leaderboard

Before(a, b, s) == \E i, j \in 1..Len(s) : i < j /\ s[i] = a /\ s[j] = b
Count(e, s) == Cardinality({i \in 1..Len(s) : s[i] = e})
InitialSortConfig == [column |-> "win_rate", direction |-> "desc"]

\* The sort keys as the specification states them, on JavaScript's values.
LowerName(e) == ToLowerCase(e.model_name)
AvgOrZero(e) == IF e.avg_guesses = NullNum THEN 0 ELSE e.avg_guesses
Wins(e) == Cardinality({i \in 1..Len(e.recent_results) : e.recent_results[i].won})
Window(e) == IF Len(e.recent_results) = 0 THEN 1 ELSE Len(e.recent_results)

StatedLess(column, a, b) ==
  CASE column = "model_name" -> StrLess(LowerName(a), LowerName(b))
    [] column = "win_rate" -> a.win_rate < b.win_rate
    [] column = "avg_guesses" -> AvgOrZero(a) < AvgOrZero(b)
    [] column = "total_golf_score" -> a.total_golf_score < b.total_golf_score
    [] column = "recent_results" -> Wins(a) * Window(b) < Wins(b) * Window(a)

StatedTie(column, a, b) == ~StatedLess(column, a, b) /\ ~StatedLess(column, b, a)

\* C1: whatever sortBy calls happened, two entries with equal sort keys appear
\* in data in the relative order they have in the fetched array.
C1_StableFromFetched ==
  Loaded =>
    \A i, j \in 1..Len(data) :
      (i < j /\ StatedTie(sortConfig.column, data[i], data[j]))
        => Before(data[i], data[j], Fetched)

C1_Witness ==
  /\ Loaded /\ sortConfig.column = "recent_results" /\ sortConfig.direction = "asc"
  /\ Len(data) >= 3 /\ data # Fetched
  /\ \E i, j \in 1..Len(data) :
       i < j /\ StatedTie("recent_results", data[i], data[j]) /\ data[i] # data[j]

\* C2: data is a permutation of the fetched entries whose keys for the
\* selected column never decrease (asc) or never increase (desc).
C2_SortedPermutation ==
  Loaded =>
    /\ Len(data) = Len(Fetched)
    /\ \A e \in Entries : Count(e, data) = Count(e, Fetched)
    /\ \A i, j \in 1..Len(data) :
         i < j => IF sortConfig.direction = "asc"
                  THEN ~StatedLess(sortConfig.column, data[j], data[i])
                  ELSE ~StatedLess(sortConfig.column, data[i], data[j])

C2_Witness ==
  /\ Loaded /\ sortConfig.column = "total_golf_score" /\ sortConfig.direction = "asc"
  /\ Len(data) >= 3 /\ data # Fetched
  /\ StatedLess("total_golf_score", data[1], data[Len(data)])

WinRateAsc == [column |-> "win_rate", direction |-> "asc"]
WinRateDesc == [column |-> "win_rate", direction |-> "desc"]

\* C3 as stated: after sorting by win_rate descending and re-sorting
\* ascending every two entries, tied or not, are in their fetched relative order.
C3_AsStated ==
  [][(Loaded /\ delivered' = delivered /\ sortConfig = WinRateDesc /\ sortConfig' = WinRateAsc)
       => \A i, j \in 1..Len(data') : i < j => Before(data'[i], data'[j], Fetched)]_vars

\* C3 (amended): re-sorting a leaderboard shown by win_rate descending by
\* win_rate ascending reverses the relative order of entries with distinct
\* win rates, and leaves entries with tied win rates in their fetched order.
C3_ResortReverses ==
  [][(Loaded /\ delivered' = delivered /\ sortConfig = WinRateDesc /\ sortConfig' = WinRateAsc)
       => \A a, b \in Entries :
            Before(a, b, data) =>
              IF a.win_rate = b.win_rate
              THEN Before(a, b, data') /\ Before(a, b, Fetched)
              ELSE Before(b, a, data')]_vars

C3_Witness ==
  /\ Loaded /\ sortConfig = WinRateAsc /\ Len(data) >= 3
  /\ \E i, j \in 1..Len(data) : i < j /\ data[i].win_rate = data[j].win_rate
  /\ \E i, j \in 1..Len(data) :
       i < j /\ data[i].win_rate < data[j].win_rate /\ Before(data[j], data[i], Fetched)

\* C4: sorted by avg_guesses, an entry without average is placed as if its
\* average were 0: in fetched order among the entries with null or 0, before
\* every entry with a positive average when ascending and after when descending.
C4_NullAsZero ==
  (Loaded /\ sortConfig.column = "avg_guesses") =>
    \A i, j \in 1..Len(data) :
      i < j =>
        /\ (data[i].avg_guesses \in {NullNum, 0} /\ data[j].avg_guesses \in {NullNum, 0})
             => Before(data[i], data[j], Fetched)
        /\ sortConfig.direction = "asc"
             => ~(data[i].avg_guesses > 0 /\ data[j].avg_guesses = NullNum)
        /\ sortConfig.direction = "desc"
             => ~(data[i].avg_guesses = NullNum /\ data[j].avg_guesses > 0)

C4_Witness ==
  /\ Loaded /\ sortConfig = [column |-> "avg_guesses", direction |-> "asc"]
  /\ \E i, j, k \in 1..Len(data) :
       /\ i < j /\ j < k
       /\ data[i].avg_guesses = 0 /\ data[j].avg_guesses = NullNum /\ data[k].avg_guesses > 0
       /\ Before(data[k], data[j], Fetched)

\* C5: sorted by recent_results, the key of an entry is its won games over
\* max(window length, 1): the divisor is never 0, an empty window has key 0,
\* and data is ordered by that quotient.
C5_RecentFraction ==
  (Loaded /\ sortConfig.column = "recent_results") =>
    /\ \A k \in 1..Len(data) :
         /\ RecentKey(data[k]).den >= 1
         /\ RecentKey(data[k]).num * Window(data[k]) = Wins(data[k]) * RecentKey(data[k]).den
         /\ data[k].recent_results = <<>> => RecentKey(data[k]).num = 0
    /\ \A i, j \in 1..Len(data) :
         i < j => IF sortConfig.direction = "asc"
                  THEN Wins(data[i]) * Window(data[j]) <= Wins(data[j]) * Window(data[i])
                  ELSE Wins(data[i]) * Window(data[j]) >= Wins(data[j]) * Window(data[i])

C5_Witness ==
  /\ Loaded /\ sortConfig = [column |-> "recent_results", direction |-> "desc"]
  /\ Len(data) >= 3
  /\ data[Len(data)].recent_results = <<>>
  /\ Wins(data[1]) > 0
  /\ Fetched[1].recent_results = <<>>

\* C6: sorted by model_name, entries are ordered as their lower-cased names
\* are, and entries whose names differ only in case keep their fetched order.
C6_CaseInsensitive ==
  (Loaded /\ sortConfig.column = "model_name") =>
    \A i, j \in 1..Len(data) :
      i < j =>
        /\ IF sortConfig.direction = "asc"
           THEN ~StrLess(LowerName(data[j]), LowerName(data[i]))
           ELSE ~StrLess(LowerName(data[i]), LowerName(data[j]))
        /\ LowerName(data[i]) = LowerName(data[j]) => Before(data[i], data[j], Fetched)

C6_Witness ==
  /\ Loaded /\ sortConfig = [column |-> "model_name", direction |-> "asc"]
  /\ \E i, j, k \in 1..Len(data) :
       /\ i < j /\ j < k
       /\ data[i].model_name = Name_a /\ data[j].model_name = Name_A
       /\ data[k].model_name = Name_B
       /\ Before(data[k], data[i], Fetched)

\* C7: no sort and no render of the table changes what was fetched: rawData
\* holds the delivered response, entries, order and recent_results included.
C7_FetchedUntouched ==
  rawData = (IF Loaded THEN Some(delivered.resp) ELSE Null)

C7_Witness ==
  /\ Loaded /\ sortConfig # InitialSortConfig /\ table.kind = "table"
  /\ Len(data) >= 2 /\ data # Fetched
  /\ rawData[1].leaderboard = Fetched
  /\ \E k \in 1..Len(table.rows) : Len(table.rows[k].recent) = 5

Mark(game) == IF game.won THEN Check ELSE Cross

\* C8: a row shows one mark per game of the entry's window, separated by
\* blanks, the k-th mark being that of the (n+1-k)-th game of the window.
C8_MostRecentFirst ==
  table.kind = "table" =>
    \A r \in 1..Len(table.rows) :
      \A i \in 1..Len(Fetched) :
        Fetched[i].model_name = table.rows[r].model_name =>
          LET window == Fetched[i].recent_results
              n == Len(window)
              text == table.rows[r].recent
          IN /\ Len(text) = (IF n = 0 THEN 0 ELSE 2 * n - 1)
             /\ \A k \in 1..n : text[2 * k - 1] = Mark(window[n + 1 - k])
             /\ \A k \in 1..(n - 1) : text[2 * k] = " "

C8_Witness ==
  /\ table.kind = "table"
  /\ \E r \in 1..Len(table.rows) :
       /\ table.rows[r].recent = <<Check, " ", Check, " ", Cross>>
       /\ data[r].recent_results[1].won = FALSE

\* What the mounted view stores of a response.
Stored == IF page = "home" THEN rawData ELSE Some(games)

\* C9: once no request is in flight and the one that settled last succeeded,
\* the view stores that request's response, whichever was issued first.
C9_LastWriteWins ==
  (Pending = {} /\ completed # <<>> /\ requests[completed[Len(completed)]].status = "ok")
    => /\ delivered.id = completed[Len(completed)]
       /\ Stored = Some(delivered.resp)

C9_Witness ==
  /\ page = "home" /\ Pending = {} /\ completed = <<2, 1>>
  /\ requests[1].status = "ok" /\ requests[2].status = "ok"
  /\ delivered.id = 1 /\ rawData = Some(delivered.resp)
  /\ Len(rawData[1].leaderboard) = 1

\* C10: a mounted leaderboard view has issued one request plus one per
\* refresh() call; a mounted games view one plus one per change of
\* selectedDate and one per retry; before the mount effect none is issued.
C10_RequestCount ==
  /\ ~mounted => Len(requests) = 0
  /\ (mounted /\ page = "home") => Len(requests) = 1 + calls.refresh
  /\ (mounted /\ page = "games") => Len(requests) = 1 + calls.dateChange + calls.retry

C10_Witness ==
  /\ page = "games" /\ mounted /\ Pending = {}
  /\ calls.dateChange = 1 /\ Len(requests) = 2 /\ selectedDate # Today

\* C11: a sortBy call, the only step that changes sortConfig, issues no
\* request and leaves rawData, metadata, loading and error as they are, also
\* while a request is in flight.
C11_SortByFrame ==
  [][sortConfig' # sortConfig
       => /\ requests' = requests /\ completed' = completed /\ delivered' = delivered
          /\ rawData' = rawData /\ Metadata(rawData') = Metadata(rawData)
          /\ loading' = loading /\ error' = error]_vars

C11_Witness ==
  /\ page = "home" /\ Len(requests) = 1 /\ Pending = {1}
  /\ sortConfig # InitialSortConfig /\ loading

\* C12: when a getLeaderboard request fails, error becomes the fixed
\* message, loading false, rawData, data and metadata stay as they were and
\* no exception leaves fetchLeaderboard.
C12_FailureKeepsData ==
  [][(page = "home" /\ \E id \in Pending : requests'[id].status = "fail")
       => /\ error' = LeaderboardErrorMessage /\ error' # NoError
          /\ loading' = FALSE
          /\ rawData' = rawData /\ data' = data /\ Metadata(rawData') = Metadata(rawData)
          /\ escaped' = FALSE]_vars

C12_Witness ==
  /\ page = "home" /\ completed = <<1, 2>>
  /\ requests[1].status = "ok" /\ requests[2].status = "fail"
  /\ rawData # Null /\ Len(data) = 1
  /\ error = LeaderboardErrorMessage /\ ~loading /\ ~escaped

RECURSIVE SumAverages(_, _)
SumAverages(S, d) ==
  IF S = {} THEN 0
  ELSE LET i == CHOOSE x \in S : TRUE IN d[i].avg_guesses + SumAverages(S \ {i}, d)

\* C13: without a leaderboard, or with one of zero entries, data is empty
\* and the average win rate is 0; no average divides by zero; the average of
\* guesses runs over the entries that have one and is 0 when none has.
C13_EmptyRanking ==
  /\ (IF rawData = Null THEN TRUE ELSE rawData[1].leaderboard = <<>>) => data = <<>>
  /\ stats # Null =>
       LET st == stats[1]
           valid == {i \in 1..Len(data) : data[i].avg_guesses # NullNum}
       IN /\ st.avgWinRate.den >= 1 /\ st.avgGuesses.den >= 1
          /\ data = <<>> => st.avgWinRate = Zero
          /\ IF valid = {} THEN st.avgGuesses = Zero
             ELSE /\ st.avgGuesses.den = Cardinality(valid)
                  /\ st.avgGuesses.num = SumAverages(valid, data)

C13_Witness ==
  /\ Loaded /\ Fetched = <<>> /\ data = <<>> /\ table.kind = "table"
  /\ stats = Some([avgWinRate |-> Zero, avgGuesses |-> Zero])

\* The scorer has answered, and its answer is a result sequence.
Scored == result # Null
Answered == Scored /\ result[1].results # Null
Statuses == [i \in 1..Len(result[1].results[1]) |-> result[1].results[1][i].status]
Occurrences(c, w) == {i \in 1..Len(w) : w[i] = c}
FiveLetters(w) ==
  Len(w) = 5 /\ \A i \in 1..Len(w) : w[i] \in (65..90) \cup (97..122)

\* C14 as stated: target SPEED and guess ERASE score E:present, R:absent,
\* A:absent, S:present, E:absent.
C14_AsStated ==
  (Scored /\ target = Word_SPEED /\ guess = Word_ERASE)
    => /\ Answered
       /\ Statuses = <<"present", "absent", "absent", "present", "absent">>

\* C14 (amended): target SPEED and guess ERASE score E:present, R:absent,
\* A:absent, S:present, E:present; SPEED holds two E, so pass 2 credits both.
C14_SpeedErase ==
  (Scored /\ target = Word_SPEED /\ guess = Word_ERASE)
    => /\ Answered
       /\ Statuses = <<"present", "absent", "absent", "present", "present">>
       /\ [i \in 1..5 |-> result[1].results[1][i].letter] = Word_ERASE

C14_Witness ==
  /\ Answered /\ target = Word_SPEED /\ guess = Word_ERASE
  /\ Statuses[5] = "present"

\* C15: a letter that is once in the target and twice in the guess, at
\* neither of the two places where the target has it, is marked present at
\* its left occurrence and absent at its right one.
C15_LeftmostPresent ==
  Answered =>
    LET t == Normalize(target)
        g == Normalize(guess)
    IN \A c \in 65..90 :
         (Cardinality(Occurrences(c, t)) = 1 /\ Cardinality(Occurrences(c, g)) = 2
            /\ Occurrences(c, t) \cap Occurrences(c, g) = {})
           => \A i, j \in Occurrences(c, g) :
                i < j => Statuses[i] = "present" /\ Statuses[j] = "absent"

C15_Witness ==
  /\ Answered
  /\ target = <<65, 66, 66, 66, 66>> /\ guess = <<66, 65, 65, 66, 66>>
  /\ Statuses = <<"present", "present", "absent", "correct", "correct">>

\* C16: for every letter, the guess positions holding it that are marked
\* correct or present are no more than its occurrences in the target, of
\* which the exact matches are taken first; a position is correct exactly
\* when guess and target agree there.
C16_NoLetterReused ==
  Answered =>
    LET t == Normalize(target)
        g == Normalize(guess)
    IN /\ \A i \in 1..5 : Statuses[i] = "correct" <=> g[i] = t[i]
       /\ \A c \in 65..90 :
            LET exact == {i \in Occurrences(c, g) : t[i] = c}
                present == {i \in Occurrences(c, g) : Statuses[i] = "present"}
            IN /\ Cardinality(exact) + Cardinality(present) <= Cardinality(Occurrences(c, t))
               /\ present \cap exact = {}

C16_Witness ==
  /\ Answered
  /\ \E i, j \in 1..5 :
       /\ j < i /\ guess[i] = guess[j] /\ target[i] = guess[i]
       /\ Statuses[i] = "correct" /\ Statuses[j] = "absent"
       /\ Cardinality(Occurrences(guess[i], target)) = 1

\* C17: when the target or the guess is not five letters the scorer answers
\* InvalidInput and no results; otherwise it answers five results whose
\* positions are 0, 1, 2, 3, 4.
C17_RejectsMalformed ==
  Scored =>
    IF FiveLetters(target) /\ FiveLetters(guess)
    THEN /\ result[1].error = NoError
         /\ result[1].results # Null
         /\ [i \in 1..Len(result[1].results[1]) |-> result[1].results[1][i].position]
              = <<0, 1, 2, 3, 4>>
    ELSE result[1].error = "InvalidInput" /\ result[1].results = Null

C17_Witness ==
  /\ Scored /\ FiveLetters(guess) /\ Len(target) = 5 /\ ~FiveLetters(target)
  /\ result[1].error = "InvalidInput" /\ result[1].results = Null

\* The aggregator has returned.
Aggregated == ranking # Null
PlayedBy(m) == {i \in 1..Len(played) : played[i].model = m}
RECURSIVE SumWins(_)
SumWins(r) == IF r = <<>> THEN 0 ELSE r[1].wins + SumWins(Tail(r))

\* C18: of a non-empty collection the ranking has exactly one entry for each
\* model that played, every entry has wins <= total_games, and the wins of
\* all entries add up to the number of won games of the collection.
C18_WinsAddUp ==
  (Aggregated /\ played # <<>>) =>
    LET r == ranking[1]
    IN /\ \A i, j \in 1..Len(r) : r[i].model_name = r[j].model_name => i = j
       /\ {r[i].model_name : i \in 1..Len(r)} = {played[i].model : i \in 1..Len(played)}
       /\ \A i \in 1..Len(r) : r[i].wins <= r[i].total_games
       /\ SumWins(r) = Cardinality({i \in 1..Len(played) : played[i].won})

C18_Witness ==
  /\ Aggregated /\ Len(played) = MaxPlayed /\ Len(ranking[1]) = 2
  /\ played[1].model = played[3].model /\ played[1].model # played[2].model
  /\ SumWins(ranking[1]) = 2
  /\ \E i \in 1..2 : ranking[1][i].wins = 1 /\ ranking[1][i].total_games = 2

LoadingFlag == IF page = "home" THEN loading ELSE isLoading
ShownError == IF page = "home" THEN error ELSE gamesError

\* C20: when every request settles, every request that is in flight leads
\* to a state where it has settled and the loading flag is false, and the
\* mounted view gets to show that; the flag turns true only in a step that
\* starts a fetch, and a step that starts a fetch leaves the flag true and
\* the error null when the request is out.
C20_LeavesLoading ==
  /\ \A id \in 1..MaxRequests :
       (id \in Pending) ~> (id \in 1..Len(requests) /\ id \notin Pending /\ ~LoadingFlag)
  /\ <>(mounted /\ ~LoadingFlag)
  /\ [][(~LoadingFlag /\ LoadingFlag') => Len(requests') > Len(requests)]_vars
  /\ [][Len(requests') > Len(requests) => (LoadingFlag' /\ ShownError' = NoError)]_vars

C20_Witness ==
  /\ page = "games" /\ Len(requests) = 2 /\ Pending = {}
  /\ requests[1].status = "fail" /\ requests[2].cause = "retry"
  /\ requests[2].status = "fail"
  /\ ~isLoading /\ gamesError # NoError

\* C21: the table shows one of its three views: the error view whenever
\* error is set, whatever loading and data are; without an error the loading
\* view when loading is true, and the ranking otherwise.  Rows are shown in
\* the ranking view only.
C21_OneOfThreeViews ==
  table # Unrendered =>
    /\ table.kind \in {"error", "loading", "table"}
    /\ table.kind = "error" <=> error # NoError
    /\ table.kind = "loading" <=> (error = NoError /\ loading)
    /\ table.kind = "table" <=> (error = NoError /\ ~loading)
    /\ table.kind # "table" => table.rows = <<>>
    /\ table.kind = "table" => Len(table.rows) = Len(data)

C21_Witness ==
  /\ table.kind = "error" /\ error # NoError /\ loading /\ Len(data) = 2

\* The response of the last load that succeeded, and [] before there is one.
LastLoaded == IF delivered.id = 0 THEN <<>> ELSE delivered.resp

\* C22: a step of GamesPage in which a request fails leaves error set to a
\* message and isLoading false, and leaves games as it was: games is the
\* list of the last load that succeeded, whatever date is selected now.
C22_FailedLoadKeepsGames ==
  [][(page = "games" /\ \E id \in Pending : requests'[id].status = "fail")
       => /\ gamesError' # NoError /\ gamesError' \in GamesErrorMessages
          /\ ~isLoading'
          /\ games' = games
          /\ games' = LastLoaded]_vars

C22_Witness ==
  /\ page = "games" /\ Pending = {}
  /\ completed = <<1, 2>>
  /\ requests[1].status = "ok" /\ requests[2].status = "fail"
  /\ requests[2].cause = "date"
  /\ games # <<>> /\ games[1].date # selectedDate
  /\ gamesError # NoError /\ ~isLoading

\* The places of the turns array that hold turn number n.
TurnsNumbered(n) == {k \in 1..Len(turns) : turns[k].turn_number = n}

\* C23: the grid has maxTurns rows; row i shows the letter results of the
\* first turn numbered i, and five blank cells when no turn has that number.
\* So turns numbered outside 1..maxTurns and later turns of a repeated number
\* are in no row.
C23_GridRows ==
  grid # <<>> =>
    /\ Len(grid) = maxTurns
    /\ \A i \in 1..Len(grid) :
         IF TurnsNumbered(i) = {}
         THEN /\ grid[i].kind = "empty"
              /\ Len(grid[i].cells) = 5
              /\ \A j \in 1..5 : grid[i].cells[j].letter = 0 /\ grid[i].cells[j].status = ""
         ELSE \E k \in TurnsNumbered(i) :
                /\ \A h \in TurnsNumbered(i) : k <= h
                /\ grid[i].kind = "turn"
                /\ [j \in 1..Len(grid[i].cells) |-> grid[i].cells[j].letter] = turns[k].guess
                /\ [j \in 1..Len(grid[i].cells) |-> grid[i].cells[j].status]
                     = [j \in 1..Len(turns[k].letter_results) |-> turns[k].letter_results[j].status]

C23_Witness ==
  /\ grid # <<>> /\ maxTurns = 2 /\ Len(turns) = 3
  /\ turns[1].turn_number = DefaultMaxTurns
  /\ turns[2].turn_number = 2 /\ turns[3].turn_number = 2
  /\ turns[2].guess = Word_ERASE /\ turns[3].guess = Word_SPEED
  /\ grid[1].kind = "empty" /\ grid[2].kind = "turn"
  /\ grid[2].cells[1].letter = 69

\* Every request of the view has been answered, and none has failed.
AllSucceeded ==
  /\ mounted /\ Pending = {}
  /\ \A i \in 1..Len(requests) : requests[i].status = "ok"

\* C24: on GamesPage, when every request has succeeded and none is in
\* flight, the list shown is a response for the selected date; the response
\* for a date selected earlier is not what stays on the page.
C24_SelectedDateShown ==
  (page = "games" /\ AllSucceeded) => games \in GameLists(selectedDate)

\* C25: while a request of the view is in flight its loading flag is true.
C25_LoadingWhilePending ==
  Pending # {} => LoadingFlag

\* C26: once no request is in flight an error is shown only if the request
\* issued last has failed.
C26_ErrorOfNewest ==
  (mounted /\ Pending = {} /\ ShownError # NoError)
    => requests[Len(requests)].status = "fail"

\* C27: the sort starts as (win_rate, desc); a sortBy step leaves the
\* direction asc exactly when the column it selects was the column before
\* and the direction before was desc, and desc otherwise.  So a column that
\* was not selected before starts descending and a column selected again
\* flips its direction.
C27_SortByDirection ==
  /\ sortConfig = InitialSortConfig
  /\ [][sortConfig' # sortConfig
          => /\ sortConfig'.column \in SortColumns
             /\ sortConfig'.direction \in SortDirections
             /\ sortConfig'.direction = "asc"
                  <=> (sortConfig.column = sortConfig'.column /\ sortConfig.direction = "desc")
             /\ sortConfig'.column = sortConfig.column
                  => sortConfig'.direction # sortConfig.direction
             /\ sortConfig'.column # sortConfig.column
                  => sortConfig'.direction = "desc"]_vars

C27_Witness ==
  /\ page = "home" /\ mounted
  /\ sortConfig = [column |-> "model_name", direction |-> "asc"]

\* C28: in the ranking the rows at index 0, 1, 2 carry gold, silver and
\* bronze and no other row carries a trophy, so min(3, n) rows do; the rows
\* are the entries in the displayed order, so gold is on the first entry of
\* the selected order: sorted by win_rate ascending, on an entry with the
\* lowest win rate.
C28_TrophyByIndex ==
  table.kind = "table" =>
    LET n == Len(table.rows)
        withTrophy == {k \in 1..n : table.rows[k].trophy # ""}
    IN /\ n = Len(data)
       /\ \A k \in 1..n :
            /\ table.rows[k].model_name = data[k].model_name
            /\ table.rows[k].trophy =
                 (IF k = 1 THEN "gold" ELSE IF k = 2 THEN "silver"
                  ELSE IF k = 3 THEN "bronze" ELSE "")
       /\ Cardinality(withTrophy) = (IF n < 3 THEN n ELSE 3)
       /\ (sortConfig = WinRateAsc /\ n > 0)
            => \A k \in 1..n : data[1].win_rate <= data[k].win_rate

C28_Witness ==
  /\ table.kind = "table" /\ Len(table.rows) = 4
  /\ sortConfig = WinRateAsc
  /\ table.rows[1].trophy = "gold" /\ table.rows[4].trophy = ""
  /\ data[1].win_rate = 0 /\ Fetched[1].win_rate = 100

\* C29: a call that got a response that is not OK throws an Error whose
\* message is the detail of the response body when the body has a non-empty
\* one and "HTTP <status>" otherwise, and returns nothing; a call that got an
\* OK response with a JSON body returns the value the body parses to.
C29_FetchJsonOutcome ==
  outcome # Null =>
    LET resp == response[1]
        hasDetail == /\ resp.body.json /\ resp.body.value.type = "string"
                     /\ resp.body.value.text # ""
    IN IF resp.status \notin 200..299
       THEN /\ outcome[1].kind = "thrown"
            /\ outcome[1].name = "Error"
            /\ outcome[1].message =
                 (IF hasDetail THEN resp.body.value.text
                  ELSE "HTTP " \o ToString(resp.status))
       ELSE resp.body.json
              => outcome[1].kind = "returned" /\ outcome[1].value = resp.body.value

\* C30: finished starts false and, once true, stays true; a finished tile
\* has neither the animate-in class nor an animation delay whatever animateIn
\* is, and a tile that is not finished has the delay position * 100 ms when
\* animateIn is true and no delay when it is false.
C30_FinishedLatch ==
  /\ finished = FALSE
  /\ [][finished => finished']_vars
  /\ [](tileView # Null =>
          /\ finished => /\ ~tileView[1].animateClass
                         /\ tileView[1].style.animationDelay = NullNum
          /\ (~finished /\ tile[1].animateIn)
               => tileView[1].style.animationDelay = tile[1].position * 100
          /\ (~finished /\ ~tile[1].animateIn)
               => tileView[1].style.animationDelay = NullNum)

C30_Witness ==
  /\ tileView # Null /\ finished
  /\ tile[1].animateIn /\ tile[1].position = 3
  /\ ~tileView[1].animateClass /\ tileView[1].style.animation = "none"

====
